---------------------------- MODULE Spec2Model ----------------------------
(***************************************************************************)
(* State-machine model of src/AcquisitionIMU.cpp: the signal handler, the  *)
(* log callback (Frame Recorder) and main() (argument validation, the      *)
(* second-boundary wait, file creation, device startup, the acquisition    *)
(* loop and teardown).                                                     *)
(*                                                                         *)
(* Environment:                                                            *)
(*  - the wall clock (time()) and the monotonic clock (steady_clock) tick  *)
(*    on their own, between the steps of the program that read them (see   *)
(*    WallTick and MonoTick);                                              *)
(*  - SIGINT / SIGTERM may be delivered between any two steps;             *)
(*  - the sbgECom library is external: every call into it returns a        *)
(*    nondeterministic error code, and sbgEComHandle dispatches zero or    *)
(*    more decoded frames to the registered callback before it returns;    *)
(*  - fopen may fail (it is not checked by the code); fwrite/fflush on an  *)
(*    open stream transfer all their bytes (short writes are outside the   *)
(*    model).                                                              *)
(* signal() is taken with BSD semantics (glibc): a handler stays           *)
(* installed after a delivery.                                             *)
(***************************************************************************)
EXTENDS Integers, Sequences, FiniteSets, TLC

(***************************** bounds **************************************)
\* Largest wall-clock second the model lets time() reach.
MaxWall == 2
\* Largest monotonic-clock reading (in microsecond units).
MaxMono == 2
\* Number of frames the device delivers in one run.
MaxFrames == 2

(************************** program constants ******************************)
SIGINT == "SIGINT"
SIGTERM == "SIGTERM"
Signals == {SIGINT, SIGTERM}

SBG_NO_ERROR == "SBG_NO_ERROR"
SBG_NOT_READY == "SBG_NOT_READY"
SBG_ERROR == "SBG_ERROR"
\* Error codes a library call can report.
ErrorCodes == {SBG_NO_ERROR, SBG_NOT_READY, SBG_ERROR}

SBG_ECOM_CLASS_LOG_ECOM_0 == "LOG_ECOM_0"
SBG_ECOM_CLASS_LOG_ECOM_1 == "LOG_ECOM_1"
SBG_ECOM_LOG_EKF_EULER == "EKF_EULER"
SBG_ECOM_LOG_EKF_QUAT == "EKF_QUAT"

\* sizeof(time_t), sizeof(int64_t), sizeof(float) on the LP64 target.
SizeofTimeT == 8
SizeofInt64 == 8
SizeofFloat == 4

\* The argument counts tried: argc = 5 is "four arguments".
ArgCounts == {4, 5, 6}
\* Values of atoi(argv[4]).
ValidFrequencies == {200, 100, 50, 40, 25, 20, 10, 5, 1}
FreqArgs == ValidFrequencies \cup {0, 2, 30}

\* Payloads of the euler[3] array (floats abstracted to distinct integers).
EulerVals == {<<1, 2, 3>>, <<6, 5, 4>>}
\* Frames the library can decode and dispatch.
Frames ==
    [cls : {SBG_ECOM_CLASS_LOG_ECOM_0}, id : {SBG_ECOM_LOG_EKF_EULER}, euler : EulerVals]
    \cup [cls : {SBG_ECOM_CLASS_LOG_ECOM_0}, id : {SBG_ECOM_LOG_EKF_QUAT}, euler : {<<1, 2, 3>>}]
    \cup [cls : {SBG_ECOM_CLASS_LOG_ECOM_1}, id : {SBG_ECOM_LOG_EKF_EULER}, euler : {<<1, 2, 3>>}]

VARIABLES
    pc,              \* position of main() / of the callback it is inside
    argc, argFreq,   \* argc and atoi(argv[4])
    handlers,        \* signals whose handler is signalHandler
    flagEndLoop,     \* the global flag
    wall, mono,      \* time() and clk::now()
    unixTimestamp,   \* main's time_t local
    reference,       \* pUserArg->reference
    pFile,           \* pUserArg->pFile: "null", "open", "closed"
    buf, disk,       \* stdio buffer of the stream, and the file's content
    frequency,       \* main's SbgEComOutputMode local
    errorCode,       \* main's errorCode local
    sbgInterface,    \* "none", "open", "destroyed"
    comHandle,       \* "none", "init", "closed"
    callbackSet,     \* whether logCallback is registered
    cbFrame,         \* arguments of the running logCallback invocation
    elapsedSinceRef, \* logCallback's local
    exitStatus,      \* -1 while the process runs
    printed,         \* the messages printed so far (a set of message texts)
    framesLeft,      \* frames the device has yet to deliver
    \* history
    arrived,         \* frames dispatched, with the clock reading of line 92
    wallAtRef,       \* wall clock when the reference was captured
    sigPhase,        \* where the first signal was delivered
    polled,          \* whether sbgEComHandle was ever called
    pollsAfterSig,   \* calls of sbgEComHandle begun after the first signal (at most 2 counted)
    headerWrites, closeCount,
    iterDiag, iterSleep

vars == <<pc, argc, argFreq, handlers, flagEndLoop, wall, mono, unixTimestamp,
          reference, pFile, buf, disk, frequency, errorCode, sbgInterface,
          comHandle, callbackSet, cbFrame, elapsedSinceRef, exitStatus, printed,
          framesLeft, arrived, wallAtRef, sigPhase, polled, pollsAfterSig,
          headerWrites, closeCount, iterDiag, iterSleep>>

NoFrame == [cls |-> "none", id |-> "none", euler |-> <<0, 0, 0>>]


argVars == <<argc, argFreq>>
clockVars == <<wall, mono>>
sigVars == <<handlers, flagEndLoop, sigPhase>>
timeVars == <<unixTimestamp, reference, wallAtRef>>
fileVars == <<pFile, buf, disk, headerWrites, closeCount>>
devVars == <<sbgInterface, comHandle, callbackSet, framesLeft>>
cbVars == <<cbFrame, elapsedSinceRef, arrived>>
loopVars == <<polled, pollsAfterSig, iterDiag, iterSleep>>

(***************************** helpers *************************************)
Min(a, b) == IF a < b THEN a ELSE b

\* Width in bytes of one field of the file.
FieldSize(kind) ==
    CASE kind = "time_t" -> SizeofTimeT
      [] kind = "int64" -> SizeofInt64
      [] kind = "float" -> SizeofFloat

\* fwrite(ptr, sizeof(kind), Len(vals), stream): the fields are appended, in
\* order, to the stream's buffer.
FWrite(stream, kind, vals) ==
    stream \o [i \in 1..Len(vals) |-> [kind |-> kind, val |-> vals[i]]]

RECURSIVE FileSize(_)
\* Number of bytes held by a sequence of fields.
FileSize(content) ==
    IF content = <<>> THEN 0
    ELSE FieldSize(Head(content).kind) + FileSize(Tail(content))

\* Exit status of a process killed by the default action of a signal.
KilledBy(sig) == IF sig = SIGINT THEN 130 ELSE 143

StartupPcs == {"sigterm", "sigint", "argc", "freq", "time", "wait", "retime", "ref",
               "fopen", "header", "hflush", "serial", "init", "conf", "setcb"}
CallbackPcs == {"cb_enter", "cb_filter", "cb_w1", "cb_w2", "cb_flush", "cb_ret"}
LoopPcs == {"poll", "handle", "branch", "sleep", "check"} \cup CallbackPcs
TeardownPcs == {"exiting", "fclose", "ecomclose", "destroy", "return"}
FinalPcs == {"exited", "killed", "crashed"}

\* The part of main() a position belongs to.
Phase(p) ==
    CASE p \in StartupPcs -> "startup"
      [] p \in LoopPcs -> "loop"
      [] OTHER -> "teardown"

(************************* process termination *****************************)
\* return from main(): exit() flushes the streams that are still open.
ProcessExit(status) ==
    /\ pc' = "exited"
    /\ exitStatus' = status
    /\ disk' = IF pFile = "open" THEN disk \o buf ELSE disk
    /\ buf' = <<>>
    /\ UNCHANGED <<pFile, headerWrites, closeCount>>

(**************************** signalHandler ********************************)
\* Faulty handler: the line is printed but the flag is never set.
signalHandlerNoFlag(signal) ==
    /\ printed' = printed \cup {"Process received signal"}
    /\ UNCHANGED <<flagEndLoop, pc, exitStatus, fileVars>>

\* Faulty handler: it ends the process itself with exit(0), which flushes
\* the open stream.
signalHandlerExits(signal) ==
    /\ printed' = printed \cup {"Process received signal"}
    /\ flagEndLoop' = 1
    /\ pc' = "exited"
    /\ exitStatus' = 0
    /\ disk' = IF pFile = "open" THEN disk \o buf ELSE disk
    /\ buf' = <<>>
    /\ UNCHANGED <<pFile, headerWrites, closeCount>>

\* Lines 35-46: print the line naming the signal, set the flag.  (printed
\* keeps the message without the name: every signal takes the same path.)
signalHandler(signal) ==
    /\ printed' = printed \cup {"Process received signal"}
    /\ flagEndLoop' = 1
    /\ UNCHANGED <<pc, exitStatus, fileVars>>

\* Default action of SIGINT / SIGTERM: the process is terminated at once,
\* stdio buffers are not flushed.
DefaultAction(signal) ==
    /\ pc' = "killed"
    /\ exitStatus' = KilledBy(signal)
    /\ UNCHANGED <<printed, flagEndLoop, fileVars>>

\* Asynchronous delivery of a termination signal to the live process.
DeliverSignal ==
    /\ pc \notin FinalPcs
    /\ \E sig \in Signals :
          IF sig \in handlers THEN signalHandler(sig) ELSE DefaultAction(sig)
    /\ sigPhase' = IF sigPhase = "none" THEN Phase(pc) ELSE sigPhase
    /\ UNCHANGED <<argVars, handlers, clockVars, timeVars, frequency, errorCode,
                   devVars, cbVars, loopVars>>

(******************************* clocks ************************************)
\* time() advances by one second.  The program reads it at lines 157-159
\* only.  A tick before line 157 only shifts the origin; a further tick
\* before line 159 only makes that line sample a later second; a tick after
\* line 160 is seen by nothing.  The ticks followed are the one the wait of
\* line 158 is for, and those between line 159 and line 160.
WallTick ==
    /\ \/ pc = "wait" /\ wall <= unixTimestamp
       \/ pc = "ref"
    /\ wall < MaxWall
    /\ wall' = wall + 1
    /\ UNCHANGED <<pc, argVars, sigVars, mono, timeVars, fileVars, frequency,
                   errorCode, devVars, cbVars, exitStatus, printed, loopVars>>

\* steady_clock advances.  The program reads it at line 160 and at line 92
\* only: a tick before line 160 only shifts the origin, and a tick after the
\* loop is seen by nothing, so the clock is followed in between.
MonoTick ==
    /\ pc \in {"fopen", "header", "hflush", "serial", "init", "conf", "setcb"} \cup LoopPcs
    /\ mono < MaxMono
    /\ mono' = mono + 1
    /\ UNCHANGED <<pc, argVars, sigVars, wall, timeVars, fileVars, frequency,
                   errorCode, devVars, cbVars, exitStatus, printed, loopVars>>

(************************* main(): startup **********************************)
\* Line 129: signal(SIGTERM, signalHandler).
InstallSigterm ==
    /\ pc = "sigterm"
    /\ handlers' = handlers \cup {SIGTERM}
    /\ pc' = "sigint"
    /\ UNCHANGED <<argVars, flagEndLoop, sigPhase, clockVars, timeVars, fileVars,
                   frequency, errorCode, devVars, cbVars, exitStatus, printed, loopVars>>

\* Line 130: signal(SIGINT, signalHandler).
InstallSigint ==
    /\ pc = "sigint"
    /\ handlers' = handlers \cup {SIGINT}
    /\ pc' = "argc"
    /\ UNCHANGED <<argVars, flagEndLoop, sigPhase, clockVars, timeVars, fileVars,
                   frequency, errorCode, devVars, cbVars, exitStatus, printed, loopVars>>

\* Lines 133-138: the argument count.
CheckArgc ==
    /\ pc = "argc"
    /\ IF argc # 5
       THEN /\ printed' = printed \cup {"Error: Wrong command line arguments.", "Usage"}
            /\ ProcessExit(1)
       ELSE /\ pc' = "freq"
            /\ UNCHANGED <<printed, exitStatus, fileVars>>
    /\ UNCHANGED <<argVars, sigVars, clockVars, timeVars, frequency, errorCode,
                   devVars, cbVars, loopVars>>

\* Faulty switch: the case 40 is missing.
OutputModeNo40(f) ==
    CASE f = 200 -> "SBG_ECOM_OUTPUT_MODE_MAIN_LOOP"
      [] f = 100 -> "SBG_ECOM_OUTPUT_MODE_DIV_2"
      [] f = 50 -> "SBG_ECOM_OUTPUT_MODE_DIV_4"
      [] f = 25 -> "SBG_ECOM_OUTPUT_MODE_DIV_8"
      [] f = 20 -> "SBG_ECOM_OUTPUT_MODE_DIV_10"
      [] f = 10 -> "SBG_ECOM_OUTPUT_MODE_DIV_20"
      [] f = 5 -> "SBG_ECOM_OUTPUT_MODE_DIV_40"
      [] f = 1 -> "SBG_ECOM_OUTPUT_MODE_DIV_200"
      [] OTHER -> "default"

\* Lines 142-153: the switch on atoi(argv[4]); "default" for the default label.
OutputMode(f) ==
    CASE f = 200 -> "SBG_ECOM_OUTPUT_MODE_MAIN_LOOP"
      [] f = 100 -> "SBG_ECOM_OUTPUT_MODE_DIV_2"
      [] f = 50 -> "SBG_ECOM_OUTPUT_MODE_DIV_4"
      [] f = 40 -> "SBG_ECOM_OUTPUT_MODE_DIV_5"
      [] f = 25 -> "SBG_ECOM_OUTPUT_MODE_DIV_8"
      [] f = 20 -> "SBG_ECOM_OUTPUT_MODE_DIV_10"
      [] f = 10 -> "SBG_ECOM_OUTPUT_MODE_DIV_20"
      [] f = 5 -> "SBG_ECOM_OUTPUT_MODE_DIV_40"
      [] f = 1 -> "SBG_ECOM_OUTPUT_MODE_DIV_200"
      [] OTHER -> "default"

\* Lines 139-154: the frequency argument.
ParseFrequency ==
    /\ pc = "freq"
    /\ IF OutputMode(argFreq) = "default"
       THEN /\ printed' = printed \cup {"Error: invalid frequency.", "Usage"}
            /\ ProcessExit(1)
            /\ UNCHANGED frequency
       ELSE /\ frequency' = OutputMode(argFreq)
            /\ pc' = "time"
            /\ UNCHANGED <<printed, exitStatus, fileVars>>
    /\ UNCHANGED <<argVars, sigVars, clockVars, timeVars, errorCode, devVars,
                   cbVars, loopVars>>

\* Line 157: time(&unixTimestamp).
SampleWall ==
    /\ pc = "time"
    /\ unixTimestamp' = wall
    /\ pc' = "wait"
    /\ UNCHANGED <<argVars, sigVars, clockVars, reference, wallAtRef, fileVars,
                   frequency, errorCode, devVars, cbVars, exitStatus, printed, loopVars>>

\* Faulty wait: the condition compares the first sample with itself instead
\* of reading the clock again, so it never becomes false.
WaitSecondStale ==
    /\ pc = "wait"
    /\ pc' = IF unixTimestamp <= unixTimestamp THEN "wait" ELSE "retime"
    /\ UNCHANGED <<argVars, sigVars, clockVars, timeVars, fileVars, frequency,
                   errorCode, devVars, cbVars, exitStatus, printed, loopVars>>

\* Line 158: one evaluation of the busy-wait condition.
WaitSecond ==
    /\ pc = "wait"
    /\ pc' = IF wall <= unixTimestamp THEN "wait" ELSE "retime"
    /\ UNCHANGED <<argVars, sigVars, clockVars, timeVars, fileVars, frequency,
                   errorCode, devVars, cbVars, exitStatus, printed, loopVars>>

\* Line 159: time(&unixTimestamp), the second sample.
ResampleWall ==
    /\ pc = "retime"
    /\ unixTimestamp' = wall
    /\ pc' = "ref"
    /\ UNCHANGED <<argVars, sigVars, clockVars, reference, wallAtRef, fileVars,
                   frequency, errorCode, devVars, cbVars, exitStatus, printed, loopVars>>

\* Line 160: pUserArg->reference = clk::now().
CaptureReference ==
    /\ pc = "ref"
    /\ reference' = mono
    /\ wallAtRef' = wall
    /\ pc' = "fopen"
    /\ UNCHANGED <<argVars, sigVars, clockVars, unixTimestamp, fileVars, frequency,
                   errorCode, devVars, cbVars, exitStatus, printed, loopVars>>

\* Line 163: fopen(outputFilePath, "w"); the result is not checked.
OpenFile ==
    /\ pc = "fopen"
    /\ \/ /\ pFile' = "open"
          /\ disk' = <<>>
          /\ buf' = <<>>
       \/ /\ pFile' = "null"
          /\ UNCHANGED <<disk, buf>>
    /\ pc' = "header"
    /\ UNCHANGED <<argVars, sigVars, clockVars, timeVars, headerWrites, closeCount,
                   frequency, errorCode, devVars, cbVars, exitStatus, printed, loopVars>>

\* Faulty startup: the header write is left out.
WriteHeaderSkipped ==
    /\ pc = "header"
    /\ pc' = "hflush"
    /\ UNCHANGED <<argVars, sigVars, clockVars, timeVars, fileVars, frequency,
                   errorCode, devVars, cbVars, exitStatus, printed, loopVars>>

\* Line 166: fwrite(&unixTimestamp, sizeof(time_t), 1, pFile).  On a null
\* stream the call dereferences it and the process dies of SIGSEGV.
WriteHeader ==
    /\ pc = "header"
    /\ IF pFile = "null"
       THEN /\ pc' = "crashed"
            /\ exitStatus' = 139
            /\ UNCHANGED <<buf, headerWrites>>
       ELSE /\ buf' = FWrite(buf, "time_t", <<unixTimestamp>>)
            /\ headerWrites' = Min(headerWrites + 1, 2)
            /\ pc' = "hflush"
            /\ UNCHANGED exitStatus
    /\ UNCHANGED <<argVars, sigVars, clockVars, timeVars, pFile, disk, closeCount,
                   frequency, errorCode, devVars, cbVars, printed, loopVars>>

\* Faulty startup: the header is left in the stream's buffer.
FlushHeaderSkipped ==
    /\ pc = "hflush"
    /\ pc' = "serial"
    /\ UNCHANGED <<argVars, sigVars, clockVars, timeVars, fileVars, frequency,
                   errorCode, devVars, cbVars, exitStatus, printed, loopVars>>

\* Line 167: fflush(pFile).
FlushHeader ==
    /\ pc = "hflush"
    /\ disk' = disk \o buf
    /\ buf' = <<>>
    /\ pc' = "serial"
    /\ UNCHANGED <<argVars, sigVars, clockVars, timeVars, pFile, headerWrites,
                   closeCount, frequency, errorCode, devVars, cbVars, exitStatus,
                   printed, loopVars>>

\* Lines 170-175: sbgInterfaceSerialCreate.
SerialCreate ==
    /\ pc = "serial"
    /\ \E e \in ErrorCodes :
          /\ errorCode' = e
          /\ IF e # SBG_NO_ERROR
             THEN /\ printed' = printed \cup {"Error while opening Serial port."}
                  /\ ProcessExit(1)
                  /\ UNCHANGED sbgInterface
             ELSE /\ sbgInterface' = "open"
                  /\ pc' = "init"
                  /\ UNCHANGED <<printed, exitStatus, fileVars>>
    /\ UNCHANGED <<argVars, sigVars, clockVars, timeVars, frequency, comHandle,
                   callbackSet, framesLeft, cbVars, loopVars>>

\* Lines 178-183: sbgEComInit.
EComInit ==
    /\ pc = "init"
    /\ \E e \in ErrorCodes :
          /\ errorCode' = e
          /\ IF e # SBG_NO_ERROR
             THEN /\ printed' = printed \cup {"Error initialising sbg library."}
                  /\ ProcessExit(1)
                  /\ UNCHANGED comHandle
             ELSE /\ comHandle' = "init"
                  /\ pc' = "conf"
                  /\ UNCHANGED <<printed, exitStatus, fileVars>>
    /\ UNCHANGED <<argVars, sigVars, clockVars, timeVars, frequency, sbgInterface,
                   callbackSet, framesLeft, cbVars, loopVars>>

\* Faulty startup: the result of sbgEComCmdOutputSetConf is not tested.
SetConfUnchecked ==
    /\ pc = "conf"
    /\ \E e \in ErrorCodes : errorCode' = e
    /\ pc' = "setcb"
    /\ UNCHANGED <<argVars, sigVars, clockVars, timeVars, fileVars, frequency,
                   devVars, cbVars, exitStatus, printed, loopVars>>

\* Lines 186-196: sbgEComCmdOutputSetConf.
SetConf ==
    /\ pc = "conf"
    /\ \E e \in ErrorCodes :
          /\ errorCode' = e
          /\ IF e # SBG_NO_ERROR
             THEN /\ printed' = printed \cup {"Error while configuring LOGS."}
                  /\ ProcessExit(1)
             ELSE /\ pc' = "setcb"
                  /\ UNCHANGED <<printed, exitStatus, fileVars>>
    /\ UNCHANGED <<argVars, sigVars, clockVars, timeVars, frequency, devVars,
                   cbVars, loopVars>>

\* Line 199: sbgEComSetReceiveLogCallback.
SetReceiveLogCallback ==
    /\ pc = "setcb"
    /\ callbackSet' = TRUE
    /\ pc' = "poll"
    /\ UNCHANGED <<argVars, sigVars, clockVars, timeVars, fileVars, frequency,
                   errorCode, sbgInterface, comHandle, framesLeft, cbVars,
                   exitStatus, printed, loopVars>>

(**************************** logCallback **********************************)
\* Faulty offset: the operands of the subtraction are swapped.
ElapsedSwapped(current, timeReference) == timeReference - current

\* Line 93: duration_cast<duration_us>(current - timeReference).count().
Elapsed(current, timeReference) == current - timeReference

\* Faulty filter: the message id is not looked at.
AcceptsClassOnly(msgClass, msg) == msgClass = SBG_ECOM_CLASS_LOG_ECOM_0

\* Lines 99-103: the filter on the message class and the message id.
Accepts(msgClass, msg) ==
    /\ msgClass = SBG_ECOM_CLASS_LOG_ECOM_0
    /\ msg = SBG_ECOM_LOG_EKF_EULER

\* Lines 91-94: read the reference, sample the clock, compute the offset.
CbEnter ==
    /\ pc = "cb_enter"
    /\ elapsedSinceRef' = Elapsed(mono, reference)
    /\ arrived' = Append(arrived, [frame |-> cbFrame, at |-> mono])
    /\ pc' = "cb_filter"
    /\ UNCHANGED <<argVars, sigVars, clockVars, timeVars, fileVars, frequency,
                   errorCode, devVars, cbFrame, exitStatus, printed, loopVars>>

\* Lines 99-111: the if and the switch.
CbFilter ==
    /\ pc = "cb_filter"
    /\ pc' = IF Accepts(cbFrame.cls, cbFrame.id) THEN "cb_w1" ELSE "cb_ret"
    /\ UNCHANGED <<argVars, sigVars, clockVars, timeVars, fileVars, frequency,
                   errorCode, devVars, cbVars, exitStatus, printed, loopVars>>

\* Line 105: fwrite(&elapsedSinceRef, sizeof(int64_t), 1, pOpenFile).
CbWriteElapsed ==
    /\ pc = "cb_w1"
    /\ buf' = FWrite(buf, "int64", <<elapsedSinceRef>>)
    /\ pc' = "cb_w2"
    /\ UNCHANGED <<argVars, sigVars, clockVars, timeVars, pFile, disk, headerWrites,
                   closeCount, frequency, errorCode, devVars, cbVars, exitStatus,
                   printed, loopVars>>

\* Faulty write: the three angles are written last to first.
CbWriteEulerReversed ==
    /\ pc = "cb_w2"
    /\ buf' = FWrite(buf, "float", <<cbFrame.euler[3], cbFrame.euler[2], cbFrame.euler[1]>>)
    /\ pc' = "cb_flush"
    /\ UNCHANGED <<argVars, sigVars, clockVars, timeVars, pFile, disk, headerWrites,
                   closeCount, frequency, errorCode, devVars, cbVars, exitStatus,
                   printed, loopVars>>

\* Faulty write: a count of 2 instead of 3.
CbWriteEulerShort ==
    /\ pc = "cb_w2"
    /\ buf' = FWrite(buf, "float", <<cbFrame.euler[1], cbFrame.euler[2]>>)
    /\ pc' = "cb_flush"
    /\ UNCHANGED <<argVars, sigVars, clockVars, timeVars, pFile, disk, headerWrites,
                   closeCount, frequency, errorCode, devVars, cbVars, exitStatus,
                   printed, loopVars>>

\* Line 106: fwrite(pLogData->ekfEulerData.euler, sizeof(float), 3, pOpenFile).
CbWriteEuler ==
    /\ pc = "cb_w2"
    /\ buf' = FWrite(buf, "float", cbFrame.euler)
    /\ pc' = "cb_flush"
    /\ UNCHANGED <<argVars, sigVars, clockVars, timeVars, pFile, disk, headerWrites,
                   closeCount, frequency, errorCode, devVars, cbVars, exitStatus,
                   printed, loopVars>>

\* Line 107: fflush(pOpenFile).
CbFlush ==
    /\ pc = "cb_flush"
    /\ disk' = disk \o buf
    /\ buf' = <<>>
    /\ pc' = "cb_ret"
    /\ UNCHANGED <<argVars, sigVars, clockVars, timeVars, pFile, headerWrites,
                   closeCount, frequency, errorCode, devVars, cbVars, exitStatus,
                   printed, loopVars>>

\* Line 114: return SBG_NO_ERROR, back into sbgEComHandle.
CbReturn ==
    /\ pc = "cb_ret"
    /\ cbFrame' = NoFrame
    /\ elapsedSinceRef' = 0
    /\ pc' = "handle"
    /\ UNCHANGED <<argVars, sigVars, clockVars, timeVars, fileVars, frequency,
                   errorCode, devVars, arrived, exitStatus, printed, loopVars>>

(********************** main(): the acquisition loop ************************)
\* Faulty loop: the flag is tested at the top of the iteration, before the
\* poll.
PollBeginChecksFlag ==
    /\ pc = "poll"
    /\ IF flagEndLoop # 0
       THEN /\ pc' = "exiting"
            /\ UNCHANGED loopVars
       ELSE /\ pc' = "handle"
            /\ polled' = TRUE
            /\ pollsAfterSig' = IF sigPhase = "none" THEN pollsAfterSig
                                ELSE Min(pollsAfterSig + 1, 2)
            /\ iterDiag' = FALSE
            /\ iterSleep' = FALSE
    /\ UNCHANGED <<argVars, sigVars, clockVars, timeVars, fileVars, frequency,
                   errorCode, devVars, cbVars, exitStatus, printed>>

\* Line 204: the call of sbgEComHandle.
PollBegin ==
    /\ pc = "poll"
    /\ pc' = "handle"
    /\ polled' = TRUE
    /\ pollsAfterSig' = IF sigPhase = "none" THEN pollsAfterSig
                        ELSE Min(pollsAfterSig + 1, 2)
    /\ iterDiag' = FALSE
    /\ iterSleep' = FALSE
    /\ UNCHANGED <<argVars, sigVars, clockVars, timeVars, fileVars, frequency,
                   errorCode, devVars, cbVars, exitStatus, printed>>

\* Inside sbgEComHandle: a decoded frame is handed to the registered callback.
DispatchFrame ==
    /\ pc = "handle"
    /\ callbackSet
    /\ framesLeft > 0
    /\ \E f \in Frames : cbFrame' = f
    /\ framesLeft' = framesLeft - 1
    /\ pc' = "cb_enter"
    /\ UNCHANGED <<argVars, sigVars, clockVars, timeVars, fileVars, frequency,
                   errorCode, sbgInterface, comHandle, callbackSet, elapsedSinceRef,
                   arrived, exitStatus, printed, loopVars>>

\* Line 204: sbgEComHandle returns, errorCode is assigned.
PollReturn ==
    /\ pc = "handle"
    /\ \E e \in ErrorCodes : errorCode' = e
    /\ pc' = "branch"
    /\ UNCHANGED <<argVars, sigVars, clockVars, timeVars, fileVars, frequency,
                   devVars, cbVars, exitStatus, printed, loopVars>>

\* Faulty branch: the sleep is taken on every result but success.
BackoffOnAnyError ==
    /\ pc = "branch"
    /\ IF errorCode # SBG_NO_ERROR
       THEN /\ iterSleep' = TRUE
            /\ pc' = "sleep"
            /\ UNCHANGED iterDiag
       ELSE /\ iterDiag' = TRUE
            /\ pc' = "check"
            /\ UNCHANGED iterSleep
    /\ UNCHANGED <<argVars, sigVars, clockVars, timeVars, fileVars, frequency,
                   errorCode, devVars, cbVars, exitStatus, printed, polled,
                   pollsAfterSig>>

\* Lines 207-208: sbgSleep(1) on SBG_NOT_READY, SBG_LOG_ERROR otherwise.
Backoff ==
    /\ pc = "branch"
    /\ IF errorCode = SBG_NOT_READY
       THEN /\ iterSleep' = TRUE
            /\ pc' = "sleep"
            /\ UNCHANGED iterDiag
       ELSE /\ iterDiag' = TRUE
            /\ pc' = "check"
            /\ UNCHANGED iterSleep
    /\ UNCHANGED <<argVars, sigVars, clockVars, timeVars, fileVars, frequency,
                   errorCode, devVars, cbVars, exitStatus, printed, polled,
                   pollsAfterSig>>

\* Line 207: sbgSleep(1) returns (its time is up, or a signal interrupted it).
SleepEnd ==
    /\ pc = "sleep"
    /\ pc' = "check"
    /\ UNCHANGED <<argVars, sigVars, clockVars, timeVars, fileVars, frequency,
                   errorCode, devVars, cbVars, exitStatus, printed, loopVars>>

\* Faulty test: the condition of the break is negated.
LoopEndsNegated(flag) == flag = 0

\* Line 211: the loop is left when the flag is non-zero.
LoopEnds(flag) == flag # 0

\* Faulty check: the flag is cleared when it is found set.
CheckFlagResets ==
    /\ pc = "check"
    /\ pc' = IF LoopEnds(flagEndLoop) THEN "exiting" ELSE "poll"
    /\ flagEndLoop' = 0
    /\ UNCHANGED <<argVars, handlers, sigPhase, clockVars, timeVars, fileVars, frequency,
                   errorCode, devVars, cbVars, exitStatus, printed, loopVars>>

\* Line 211: if (flagEndLoop) break.
CheckFlag ==
    /\ pc = "check"
    /\ pc' = IF LoopEnds(flagEndLoop) THEN "exiting" ELSE "poll"
    /\ UNCHANGED <<argVars, sigVars, clockVars, timeVars, fileVars, frequency,
                   errorCode, devVars, cbVars, exitStatus, printed, loopVars>>

(************************** main(): teardown ********************************)
\* Line 214: printf("Exiting.\n").
PrintExiting ==
    /\ pc = "exiting"
    /\ printed' = printed \cup {"Exiting."}
    /\ pc' = "fclose"
    /\ UNCHANGED <<argVars, sigVars, clockVars, timeVars, fileVars, frequency,
                   errorCode, devVars, cbVars, exitStatus, loopVars>>

\* Faulty teardown: the stream is left open when the device is released.
CloseFileSkipped ==
    /\ pc = "fclose"
    /\ pc' = "ecomclose"
    /\ UNCHANGED <<argVars, sigVars, clockVars, timeVars, fileVars, frequency,
                   errorCode, devVars, cbVars, exitStatus, printed, loopVars>>

\* Line 215: fclose(pUserArg->pFile) flushes and closes the stream.
CloseFile ==
    /\ pc = "fclose"
    /\ disk' = disk \o buf
    /\ buf' = <<>>
    /\ pFile' = "closed"
    /\ closeCount' = Min(closeCount + 1, 2)
    /\ pc' = "ecomclose"
    /\ UNCHANGED <<argVars, sigVars, clockVars, timeVars, headerWrites, frequency,
                   errorCode, devVars, cbVars, exitStatus, printed, loopVars>>

\* Line 216: sbgEComClose(&comHandle).
EComClose ==
    /\ pc = "ecomclose"
    /\ comHandle' = "closed"
    /\ pc' = "destroy"
    /\ UNCHANGED <<argVars, sigVars, clockVars, timeVars, fileVars, frequency,
                   errorCode, sbgInterface, callbackSet, framesLeft, cbVars,
                   exitStatus, printed, loopVars>>

\* Line 217: sbgInterfaceDestroy(&sbgInterface).
InterfaceDestroy ==
    /\ pc = "destroy"
    /\ sbgInterface' = "destroyed"
    /\ pc' = "return"
    /\ UNCHANGED <<argVars, sigVars, clockVars, timeVars, fileVars, frequency,
                   errorCode, comHandle, callbackSet, framesLeft, cbVars,
                   exitStatus, printed, loopVars>>

\* Line 218: return 0.
ReturnZero ==
    /\ pc = "return"
    /\ ProcessExit(0)
    /\ UNCHANGED <<argVars, sigVars, clockVars, timeVars, frequency, errorCode,
                   devVars, cbVars, printed, loopVars>>

(**************************** specification ********************************)
\* The process image right after exec: globals and the members of the
\* callbackArgument are initialised, the locals have no value yet.
InitProcess ==
    /\ pc = "sigterm"
    /\ handlers = {}
    /\ flagEndLoop = 0
    /\ wall = 0
    /\ mono = 1
    /\ unixTimestamp = -1
    /\ reference = 0
    /\ pFile = "null"
    /\ buf = <<>>
    /\ disk = <<>>
    /\ frequency = "unset"
    /\ errorCode = SBG_NO_ERROR
    /\ sbgInterface = "none"
    /\ comHandle = "none"
    /\ callbackSet = FALSE
    /\ cbFrame = NoFrame
    /\ elapsedSinceRef = 0
    /\ exitStatus = -1
    /\ printed = {}
    /\ arrived = <<>>
    /\ wallAtRef = -1
    /\ sigPhase = "none"
    /\ polled = FALSE
    /\ pollsAfterSig = 0
    /\ headerWrites = 0
    /\ closeCount = 0
    /\ iterDiag = FALSE
    /\ iterSleep = FALSE

\* A 10 Hz session (and an invalid frequency) started with every argument
\* count, on a device that delivers up to MaxFrames frames.
Init ==
    /\ InitProcess
    /\ argc \in ArgCounts
    /\ argFreq \in {10, 0}
    /\ framesLeft = MaxFrames

\* Every command line, on a device that delivers one frame.
InitArgs ==
    /\ InitProcess
    /\ argc \in ArgCounts
    /\ argFreq \in FreqArgs
    /\ framesLeft = 1

Next ==
    \/ DeliverSignal
    \/ WallTick
    \/ MonoTick
    \/ InstallSigterm
    \/ InstallSigint
    \/ CheckArgc
    \/ ParseFrequency
    \/ SampleWall
    \/ WaitSecond
    \/ ResampleWall
    \/ CaptureReference
    \/ OpenFile
    \/ WriteHeader
    \/ FlushHeader
    \/ SerialCreate
    \/ EComInit
    \/ SetConf
    \/ SetReceiveLogCallback
    \/ PollBegin
    \/ DispatchFrame
    \/ PollReturn
    \/ CbEnter
    \/ CbFilter
    \/ CbWriteElapsed
    \/ CbWriteEuler
    \/ CbFlush
    \/ CbReturn
    \/ Backoff
    \/ SleepEnd
    \/ CheckFlag
    \/ PrintExiting
    \/ CloseFile
    \/ EComClose
    \/ InterfaceDestroy
    \/ ReturnZero

Spec == Init /\ [][Next]_vars

SpecArgs == InitArgs /\ [][Next]_vars

\* One step of the process itself: main(), or the callback it is inside.
MainStep ==
    \/ InstallSigterm \/ InstallSigint \/ CheckArgc \/ ParseFrequency
    \/ SampleWall \/ WaitSecond \/ ResampleWall \/ CaptureReference
    \/ OpenFile \/ WriteHeader \/ FlushHeader
    \/ SerialCreate \/ EComInit \/ SetConf \/ SetReceiveLogCallback
    \/ PollBegin \/ DispatchFrame \/ PollReturn
    \/ CbEnter \/ CbFilter \/ CbWriteElapsed \/ CbWriteEuler \/ CbFlush \/ CbReturn
    \/ Backoff \/ SleepEnd \/ CheckFlag
    \/ PrintExiting \/ CloseFile \/ EComClose \/ InterfaceDestroy \/ ReturnZero

\* The process keeps running (every call it makes returns, every sleep ends)
\* and the wall clock keeps advancing while line 158 waits for it.
Fairness == WF_vars(MainStep) /\ WF_vars(WallTick)

\* Every command line, one frame, under the fairness above.
FairSpec == InitArgs /\ [][Next]_vars /\ Fairness

(******************************* claims ************************************)
\* sizeof one body record: the int64 offset and the three floats.
RecordSize == SizeofInt64 + 3 * SizeofFloat

\* C1: the acquisition loop is left only by the flag check of line 211, only
\* with the flag set, and only after a termination signal was delivered;
\* whatever the poll results, without a signal no step takes the program out
\* of the loop (to teardown, to exit or to any other end).
C1_LoopLeftOnlyOnFlag ==
    [][(pc \in LoopPcs /\ pc' \notin LoopPcs)
         => (pc = "check" /\ pc' = "exiting" /\ flagEndLoop # 0 /\ sigPhase # "none")]_vars

\* C1 witness: a further iteration is about to start after a poll that
\* reported an error other than not-ready, no signal having been delivered.
C1_Witness ==
    /\ pc = "poll"
    /\ polled
    /\ sigPhase = "none"
    /\ errorCode = SBG_ERROR

\* C2: when the first termination signal is delivered inside the loop, at
\* most one call of sbgEComHandle begins after the delivery (the first flag
\* check after it ends the loop), and the process ends having closed the
\* output stream exactly once, with status 0.
C2_SignalStopsAtNextBoundary ==
    sigPhase = "loop" =>
        /\ pollsAfterSig <= 1
        /\ flagEndLoop # 0
        /\ (pc = "poll" => pollsAfterSig = 0)
        /\ pc \in LoopPcs \cup TeardownPcs \cup {"exited"}
        /\ closeCount = (IF pc \in {"ecomclose", "destroy", "return", "exited"} THEN 1 ELSE 0)
        /\ (pc = "exited" => exitStatus = 0 /\ pFile = "closed" /\ buf = <<>>)

\* C2 witness: the process has exited after a signal that arrived in the
\* loop, one poll having begun after the delivery.
C2_Witness ==
    /\ pc = "exited"
    /\ sigPhase = "loop"
    /\ pollsAfterSig = 1
    /\ exitStatus = 0
    /\ closeCount = 1

\* C3: while logCallback runs on a frame whose (class, id) pair is not
\* (LOG_ECOM_0, EKF_EULER), no step changes the output stream: neither its
\* buffer nor the file.
C3_OtherFramesWriteNothing ==
    [][(pc \in CallbackPcs
          /\ ~(cbFrame.cls = SBG_ECOM_CLASS_LOG_ECOM_0 /\ cbFrame.id = SBG_ECOM_LOG_EKF_EULER))
         => (buf' = buf /\ disk' = disk)]_vars

\* C3 witness: two frames were handled, one of the right class with another
\* id and one of another class with the right id, and the file holds the
\* header alone.
C3_Witness ==
    /\ pc = "handle"
    /\ Len(arrived) = 2
    /\ arrived[1].frame.cls = SBG_ECOM_CLASS_LOG_ECOM_0
    /\ arrived[1].frame.id = SBG_ECOM_LOG_EKF_QUAT
    /\ arrived[2].frame.cls = SBG_ECOM_CLASS_LOG_ECOM_1
    /\ arrived[2].frame.id = SBG_ECOM_LOG_EKF_EULER
    /\ Len(disk) = 1
    /\ buf = <<>>

RECURSIVE C4_ExpectedBody(_)
\* The body the frames of a log must have produced: for each orientation
\* frame, in order, the offset of its callback and its three angles.
C4_ExpectedBody(log) ==
    IF log = <<>> THEN <<>>
    ELSE LET f == Head(log).frame
             rec == IF f.cls = SBG_ECOM_CLASS_LOG_ECOM_0 /\ f.id = SBG_ECOM_LOG_EKF_EULER
                    THEN <<[kind |-> "int64", val |-> Head(log).at - reference],
                           [kind |-> "float", val |-> f.euler[1]],
                           [kind |-> "float", val |-> f.euler[2]],
                           [kind |-> "float", val |-> f.euler[3]]>>
                    ELSE <<>>
         IN rec \o C4_ExpectedBody(Tail(log))

\* C4: whenever the program is in the loop outside logCallback, in teardown
\* or has exited after the loop, nothing is pending in the stream's buffer
\* and what follows the header in the file is one record per orientation
\* frame dispatched so far, in arrival order, each the offset followed by
\* the frame's three angles in order.
C4_BodyIsArrivedOrientationFrames ==
    (polled /\ pc \notin CallbackPcs) =>
        /\ buf = <<>>
        /\ disk # <<>>
        /\ Tail(disk) = C4_ExpectedBody(arrived)

\* C4 witness: two orientation frames with different angles were recorded
\* and the process has exited.
C4_Witness ==
    /\ pc = "exited"
    /\ Len(arrived) = 2
    /\ arrived[1].frame.id = SBG_ECOM_LOG_EKF_EULER
    /\ arrived[1].frame.cls = SBG_ECOM_CLASS_LOG_ECOM_0
    /\ arrived[2].frame.id = SBG_ECOM_LOG_EKF_EULER
    /\ arrived[2].frame.cls = SBG_ECOM_CLASS_LOG_ECOM_0
    /\ arrived[1].frame.euler # arrived[2].frame.euler
    /\ Len(disk) = 9

\* C5: at the head of an iteration, at the flag check, and once the process
\* has ended with an output file created, the file holds the header plus a
\* whole number of records and no byte is pending in the buffer.
C5_WholeRecords ==
    (pFile # "null" /\ pc \in {"poll", "check"} \cup FinalPcs) =>
        /\ buf = <<>>
        /\ FileSize(disk) >= SizeofTimeT
        /\ (FileSize(disk) - SizeofTimeT) % RecordSize = 0

\* C5 witness: the flag check is reached with exactly one record in the file.
C5_Witness ==
    /\ pc = "check"
    /\ FileSize(disk) = SizeofTimeT + RecordSize

\* The offsets written so far, in file order.
C6_Offsets(content) ==
    LET ints == SelectSeq(content, LAMBDA f : f.kind = "int64")
    IN [i \in 1..Len(ints) |-> ints[i].val]

\* C6: the offsets written to the stream are non-negative and
\* non-decreasing in file order, and from the capture of line 160 on the
\* reference is not ahead of the monotonic clock.
C6_OffsetsMonotonic ==
    LET offs == C6_Offsets(disk \o buf)
    IN /\ \A i \in 1..Len(offs) : offs[i] >= 0
       /\ \A i \in 1..Len(offs), j \in 1..Len(offs) : i < j => offs[i] <= offs[j]
       /\ (pc \in LoopPcs => reference <= mono)

\* C6 witness: two records, the second with a later offset than the first.
C6_Witness ==
    LET offs == C6_Offsets(disk)
    IN /\ Len(offs) = 2
       /\ offs[1] < offs[2]

\* C7: the header is written at most once; whatever the stream holds starts
\* with the header and holds no other header field; and from the write of
\* line 166 on (the file having been created) it was written exactly once,
\* with the stored wall-clock second.
C7_HeaderOnceAndFirst ==
    LET content == disk \o buf
    IN /\ headerWrites <= 1
       /\ content # <<>> =>
             /\ content[1] = [kind |-> "time_t", val |-> unixTimestamp]
             /\ \A i \in 2..Len(content) : content[i].kind # "time_t"
       /\ (pFile # "null" /\ pc # "header") => (headerWrites = 1 /\ content # <<>>)

\* C7 witness: the process has exited with the header and two records.
C7_Witness ==
    /\ pc = "exited"
    /\ headerWrites = 1
    /\ Len(disk) = 9
    /\ disk[1].kind = "time_t"

\* C8 (as stated): once the reference is captured, the stored wall-clock
\* second equals the wall-clock second that was current at the capture.
C8_NoDrift ==
    wallAtRef # -1 => unixTimestamp = wallAtRef

\* C9: with four arguments and a frequency of the enumerated set, no usage
\* error is reported and, past the switch, the output mode is the one of the
\* frequency's case; with any other frequency or argument count the process
\* gets no further than the argument checks, where it exits with a non-zero
\* status and the usage message, no file created and no library call made.
C9_ArgumentValidation ==
    IF argc = 5 /\ argFreq \in {200, 100, 50, 40, 25, 20, 10, 5, 1}
    THEN /\ "Usage" \notin printed
         /\ pc \notin {"sigterm", "sigint", "argc", "freq", "killed"}
               => frequency \notin {"unset", "default"}
    ELSE /\ pc \in {"sigterm", "sigint", "argc", "freq", "killed", "exited"}
         /\ pc = "exited" => (exitStatus = 1 /\ "Usage" \in printed)
         /\ sbgInterface = "none"
         /\ comHandle = "none"
         /\ errorCode = SBG_NO_ERROR
         /\ pFile = "null"
         /\ ~polled

\* C9 witness: started at 40 Hz, the output configuration was applied.
C9_Witness ==
    /\ argc = 5
    /\ argFreq = 40
    /\ pc = "setcb"
    /\ frequency = "SBG_ECOM_OUTPUT_MODE_DIV_5"

\* C10: once one of the three startup calls has reported an error, the
\* process has exited with a non-zero status and a diagnostic, the callback
\* was never registered, sbgEComHandle was never called, no frame reached
\* the callback and the file holds no body record.
C10_StartupFailureIsFatal ==
    (errorCode # SBG_NO_ERROR /\ ~polled) =>
        /\ pc = "exited"
        /\ exitStatus = 1
        /\ printed \cap {"Error while opening Serial port.",
                         "Error initialising sbg library.",
                         "Error while configuring LOGS."} # {}
        /\ ~callbackSet
        /\ arrived = <<>>
        /\ Len(disk) = 1
        /\ buf = <<>>

\* C10 witness: the output configuration failed after the transport and the
\* library were set up.
C10_Witness ==
    /\ pc = "exited"
    /\ ~polled
    /\ errorCode # SBG_NO_ERROR
    /\ sbgInterface = "open"
    /\ comHandle = "init"
    /\ "Error while configuring LOGS." \in printed


\* C11 (as stated): in an iteration, at the backoff sleep and at the flag
\* check, a diagnostic was recorded exactly when the poll reported an error
\* code other than not-ready, success not being an error.
C11_DiagnosticIffError ==
    pc \in {"sleep", "check"} =>
        (iterDiag <=> errorCode \notin {SBG_NOT_READY, SBG_NO_ERROR})

\* C12: the backoff sleep is entered only on not-ready, and at the flag
\* check the iteration has slept exactly when its poll reported not-ready;
\* after an iteration that did not sleep the next poll follows the check.
C12_SleepIffNotReady ==
    /\ pc = "sleep" => (errorCode = SBG_NOT_READY /\ iterSleep)
    /\ pc = "check" => (iterSleep <=> errorCode = SBG_NOT_READY)
    /\ (pc = "poll" /\ polled) => (iterSleep <=> errorCode = SBG_NOT_READY)

\* C12 witness: the flag check is reached after the sleep of a not-ready
\* iteration.
C12_Witness ==
    /\ pc = "check"
    /\ iterSleep
    /\ ~iterDiag
    /\ errorCode = SBG_NOT_READY


\* C13: the flag starts unset; a step changes it only from 0 to 1, and only
\* as the handler's step of a signal delivery (the handler's line is printed,
\* main() does not move); every first delivery that the handler takes, of
\* SIGINT or of SIGTERM, sets it; once set no step changes it.
C13_FlagWriteOnce ==
    /\ flagEndLoop = 0
    /\ [][/\ flagEndLoop # 0 => flagEndLoop' = flagEndLoop
          /\ flagEndLoop' # flagEndLoop =>
                /\ flagEndLoop' = 1
                /\ pc' = pc
                /\ handlers # {}
                /\ sigPhase' # "none"
                /\ "Process received signal" \in printed'
          /\ (sigPhase' # sigPhase /\ pc' # "killed") => flagEndLoop' = 1]_vars

\* C13 witness: the flag, set by a signal taken before the loop, is still
\* set when the process has gone through the loop and teardown.
C13_Witness ==
    /\ flagEndLoop = 1
    /\ sigPhase = "startup"
    /\ pc = "exited"
    /\ exitStatus = 0


\* C14: once a termination signal has been delivered, at whatever point,
\* the process eventually ends.
C14_SignalledProcessTerminates ==
    (sigPhase # "none") ~> (pc \in FinalPcs)

\* C14 witness: a signal was taken during startup, and the process has gone
\* through the wait of line 158 and a backoff sleep and ended with status 0.
C14_Witness ==
    /\ sigPhase = "startup"
    /\ flagEndLoop = 1
    /\ unixTimestamp >= 0
    /\ iterSleep
    /\ pc = "exited"
    /\ exitStatus = 0


\* A step that is the delivery of a signal: the first delivery, a delivery
\* that sets the flag, or a delivery that ends the process.  (A later
\* delivery to the handler changes nothing at all.)
C15_Delivery ==
    \/ sigPhase' # sigPhase
    \/ flagEndLoop' # flagEndLoop
    \/ (pc # "killed" /\ pc' = "killed")

\* Nothing of the process changes but the flag and the printed messages.
C15_OnlyFlagAndPrint ==
    /\ pc' = pc
    /\ exitStatus' = exitStatus
    /\ UNCHANGED <<pFile, buf, disk, headerWrites, closeCount>>
    /\ UNCHANGED <<unixTimestamp, reference, wallAtRef, wall, mono>>
    /\ UNCHANGED <<cbFrame, elapsedSinceRef, arrived>>
    /\ UNCHANGED <<argc, argFreq, handlers, frequency, errorCode, sbgInterface,
                   comHandle, callbackSet, framesLeft, polled, pollsAfterSig,
                   iterDiag, iterSleep>>

\* C15 (as stated): a delivery at any point of the process changes only the
\* flag and the printed messages.
C15_AnyDeliveryOnlySetsFlag ==
    [][C15_Delivery => C15_OnlyFlagAndPrint]_vars

\* C15 (amended): once both handlers are installed, a delivery sets the flag
\* and changes nothing else but the printed messages, wherever main() or the
\* callback stands; and whenever the loop is left, no byte is pending and the
\* file holds the header and whole records.
C15_HandledDeliveryOnlySetsFlag ==
    [][/\ (C15_Delivery /\ handlers = Signals)
             => (C15_OnlyFlagAndPrint /\ flagEndLoop' = 1)
       /\ (pc \in LoopPcs /\ pc' \notin LoopPcs)
             => /\ buf = <<>>
                /\ (FileSize(disk) - SizeofTimeT) % RecordSize = 0
                /\ Tail(disk) = C4_ExpectedBody(arrived)]_vars

\* C15 witness: the flag was set by a signal delivered after the current
\* poll began, and the callback stands between the write of the offset and
\* the write of the angles.
C15_Witness ==
    /\ pc = "cb_w2"
    /\ flagEndLoop = 1
    /\ sigPhase = "loop"
    /\ pollsAfterSig = 0
    /\ Len(buf) = 1
    /\ buf[1].kind = "int64"


\* A step that puts a field of a record into the output stream.
C16_RecordWrite ==
    /\ Len(buf') > Len(buf)
    /\ buf'[Len(buf')].kind \in {"int64", "float"}

\* C16: a field of a record enters the output stream only from the callback,
\* inside a poll of the running loop, on the open stream; once the stream is
\* closed its buffer and the file never change again; and teardown closes the
\* stream before the protocol handle, and the protocol handle before the
\* transport is destroyed.
C16_SingleWriterThenOrderedTeardown ==
    [][/\ C16_RecordWrite
             => /\ pc \in {"cb_w1", "cb_w2"}
                /\ pc' \in CallbackPcs
                /\ polled /\ callbackSet
                /\ pFile = "open" /\ closeCount = 0
                /\ comHandle = "init" /\ sbgInterface = "open"
       /\ pFile = "closed" => UNCHANGED <<pFile, buf, disk>>
       /\ (comHandle' = "closed" /\ comHandle # "closed")
             => (pFile = "closed" /\ closeCount = 1 /\ sbgInterface = "open")
       /\ (sbgInterface' = "destroyed" /\ sbgInterface # "destroyed")
             => (pFile = "closed" /\ comHandle = "closed")]_vars

\* C16 witness: records were written in the loop, and teardown has closed
\* the stream, the protocol handle and the transport.
C16_Witness ==
    /\ pc = "exited" /\ exitStatus = 0
    /\ pFile = "closed" /\ closeCount = 1
    /\ comHandle = "closed" /\ sbgInterface = "destroyed"
    /\ Len(disk) > 1 /\ arrived # <<>>


\* The flag was set by a signal that arrived during startup, and both
\* handlers are installed.
C17_SignalledInStartup ==
    /\ sigPhase = "startup"
    /\ flagEndLoop = 1
    /\ handlers = Signals

\* What holds of every state once the flag was set during startup.
C17_StartupNotAborted ==
    C17_SignalledInStartup =>
        /\ pc # "killed"
        /\ pc \in StartupPcs \cup {"poll"} => (~polled /\ pollsAfterSig = 0)
        /\ pc \in (LoopPcs \ {"poll"}) \cup TeardownPcs
              => (polled /\ pollsAfterSig = 1)
        /\ pc = "exited"
              => IF polled
                 THEN exitStatus = 0 /\ pollsAfterSig = 1 /\ closeCount = 1
                 ELSE /\ exitStatus = 1
                      /\ "Usage" \in printed \/ errorCode # SBG_NO_ERROR
        /\ pc = "crashed" => (pFile = "null" /\ ~polled)

\* C17: with the flag set by a signal taken during startup, the signal ends
\* nothing by itself: the process leaves startup only by startup's own
\* outcomes (a usage error, a failed library call, the unchecked fopen), never
\* polls twice, and reaches teardown only after exactly one poll; and once
\* startup has completed, the loop makes that one poll and the process exits
\* with status 0.
C17_OnePollThenExitZero ==
    /\ []C17_StartupNotAborted
    /\ (C17_SignalledInStartup /\ pc = "poll")
          ~> (pc = "exited" /\ exitStatus = 0 /\ pollsAfterSig = 1)

\* C17 witness: the signal came during startup, the single poll delivered a
\* frame that was recorded, and the process has exited with status 0.
C17_Witness ==
    /\ C17_SignalledInStartup
    /\ pc = "exited"
    /\ exitStatus = 0
    /\ pollsAfterSig = 1
    /\ Len(disk) > 1
    /\ "Exiting." \in printed


\* C18: from the call that opens the transport on, the file exists and
\* begins with the header, written once; a process that has exited on a
\* failed startup call did so with status 1, its file holding the header
\* alone and its stream never closed; and after a usage error the process
\* has exited with status 1 without a stream, a file or a header write.
C18_HeaderBeforeTransport ==
    /\ (pc \in {"serial", "init", "conf", "setcb"} \/ sbgInterface # "none")
          => /\ pFile # "null"
             /\ headerWrites = 1
             /\ Len(disk) >= 1
             /\ disk[1] = [kind |-> "time_t", val |-> unixTimestamp]
    /\ (pc = "exited" /\ errorCode # SBG_NO_ERROR /\ ~polled)
          => /\ exitStatus = 1
             /\ disk = <<[kind |-> "time_t", val |-> unixTimestamp]>>
             /\ FileSize(disk) = SizeofTimeT
             /\ pFile = "open"
             /\ closeCount = 0
    /\ "Usage" \in printed
          => /\ pc = "exited"
             /\ exitStatus = 1
             /\ pFile = "null"
             /\ disk = <<>> /\ buf = <<>>
             /\ headerWrites = 0
             /\ sbgInterface = "none"

\* C18 witness: the library initialisation failed on the opened transport,
\* and the process has exited leaving the header in the file.
C18_Witness ==
    /\ pc = "exited"
    /\ exitStatus = 1
    /\ "Error initialising sbg library." \in printed
    /\ sbgInterface = "open"
    /\ Len(disk) = 1
    /\ closeCount = 0

=============================================================================
